---- MODULE Spec2Model ----
(***************************************************************************)
(* var_cleaner.py: scan a directory for <base>.<version>.var files, report *)
(* the versions older than the newest one of each base, and delete them    *)
(* after confirmation.                                                     *)
(*                                                                         *)
(* A string is a sequence of one-character strings; a directory is the     *)
(* sequence of its entries in the order os.listdir enumerates them.        *)
(***************************************************************************)
EXTENDS Integers, Sequences, FiniteSets, TLC

VARIABLES
    dir,        \* the scanned directory: Seq of [name, size], enumeration order
    cfg,        \* the preference file at CONFIG_PATH
    pc,         \* where main() stands
    dirpath,    \* main: dirpath (<<>> stands for None)
    rawMode,    \* what the user typed at the mode prompt
    mode,       \* main: mode
    outdated,   \* main: outdated
    size,       \* main: size
    rawResp,    \* what the user typed at the confirmation prompt
    idx,        \* position of the deletion loop in outdated (1-based)
    out,        \* what main() has printed in this run
    attempts,   \* history: the os.remove calls of this run, [path, ok]
    fsops,      \* history: the kinds of filesystem call made in this run
    dirStart,   \* history: dir when this run started
    dir0,       \* history: dir when the first run started
    runs        \* number of runs of main() started so far

vars == <<dir, cfg, pc, dirpath, rawMode, mode, outdated, size, rawResp, idx,
          out, attempts, fsops, dirStart, dir0, runs>>

---------------------------------------------------------------------------
(* Bounds of the model *)

MaxFiles == 3

MaxRuns == 2

---------------------------------------------------------------------------
(* Strings *)

NL == "\n"

Digits == {"0", "1", "2", "3", "4", "5", "6", "7", "8", "9"}

\* str.lower() on one character (the letters the model's inputs use)
LowerChar(c) ==
    CASE c = "A" -> "a" [] c = "B" -> "b" [] c = "D" -> "d" [] c = "E" -> "e"
      [] c = "I" -> "i" [] c = "P" -> "p" [] c = "R" -> "r" [] c = "S" -> "s"
      [] c = "T" -> "t" [] c = "U" -> "u" [] c = "V" -> "v" [] c = "W" -> "w"
      [] c = "Y" -> "y" [] c = "N" -> "n" [] OTHER -> c

lower(s) == [i \in 1..Len(s) |-> LowerChar(s[i])]

IsSpace(c) == c \in {" ", "\t", NL}

\* str.strip(): drop leading and trailing whitespace
strip(s) ==
    LET Ink == {i \in 1..Len(s) : ~IsSpace(s[i])}
    IN IF Ink = {} THEN <<>>
       ELSE SubSeq(s, CHOOSE i \in Ink : \A j \in Ink : i <= j,
                      CHOOSE i \in Ink : \A j \in Ink : i >= j)

startswith(s, p) == Len(s) >= Len(p) /\ SubSeq(s, 1, Len(p)) = p

endswith(s, p) ==
    Len(s) >= Len(p) /\ SubSeq(s, Len(s) - Len(p) + 1, Len(s)) = p

DigitVal(c) ==
    CASE c = "0" -> 0 [] c = "1" -> 1 [] c = "2" -> 2 [] c = "3" -> 3
      [] c = "4" -> 4 [] c = "5" -> 5 [] c = "6" -> 6 [] c = "7" -> 7
      [] c = "8" -> 8 [] c = "9" -> 9

\* the rank of a digit string in text order
RECURSIVE TextRank(_, _)
TextRank(s, w) ==
    IF s = <<>> \/ w = 0 THEN 0
    ELSE (DigitVal(Head(s)) + 1) * 11 ^ (w - 1) + TextRank(Tail(s), w - 1)

\* fault: the version kept as text, so versions compare as strings
int_AsText(s) == TextRank(s, 4)

\* int() of a string of decimal digits
RECURSIVE int(_)
int(s) ==
    IF Len(s) = 0 THEN 0
    ELSE 10 * int(SubSeq(s, 1, Len(s) - 1)) + DigitVal(s[Len(s)])

---------------------------------------------------------------------------
(* VERSION_RE = ^(?P<base>.+?)\.(?P<version>\d+)\.var$ with re.IGNORECASE *)

DotVar == <<".", "v", "a", "r">>

\* `$` without re.MULTILINE: the end of the string, or just before a final newline
AtEnd(s, p) == p = Len(s) + 1 \/ (p = Len(s) /\ s[p] = NL)

\* the pattern matches with a base of b characters and a version of d digits
MatchesAs(s, b, d) ==
    /\ b >= 1 /\ d >= 1
    /\ b + d + 5 <= Len(s)
    /\ \A i \in 1..b : s[i] # NL                            \* .+? : `.` is not a newline
    /\ s[b + 1] = "."
    /\ \A i \in (b + 2)..(b + 1 + d) : s[i] \in Digits      \* \d+
    /\ lower(SubSeq(s, b + d + 2, b + d + 5)) = DotVar      \* \.var, ignoring case
    /\ AtEnd(s, b + d + 6)

\* VERSION_RE.match(name): the shortest base (lazy), then the longest version (greedy)
VERSION_RE_match(name) ==
    LET Splits == {bd \in (1..Len(name)) \X (1..Len(name)) : MatchesAs(name, bd[1], bd[2])}
    IN IF Splits = {}
       THEN [matched |-> FALSE, base |-> <<>>, version |-> <<>>]
       ELSE LET b == CHOOSE x \in {bd[1] : bd \in Splits} :
                        \A y \in {bd[1] : bd \in Splits} : x <= y
                d == CHOOSE x \in {bd[2] : bd \in {z \in Splits : z[1] = b}} :
                        \A y \in {bd[2] : bd \in {z \in Splits : z[1] = b}} : x >= y
            IN [matched |-> TRUE,
                base    |-> SubSeq(name, 1, b),
                version |-> SubSeq(name, b + 2, b + 1 + d)]

---------------------------------------------------------------------------
(* The filesystem *)

TheDir == <<"d">>            \* the one directory the model gives content to

BadPath == <<"x">>           \* a path that is not a directory

NoSize == -1                 \* os.path.getsize raises OSError for this entry

\* os.path.join(dirpath, name)
join(d, name) == d \o <<"/">> \o name

\* os.path.isdir(path)
isdir(path) == path = TheDir

\* os.listdir(dirpath) on filesystem content fs
listdir(fs) == [i \in 1..Len(fs) |-> fs[i].name]

Entries(fs, d, path) == {i \in 1..Len(fs) : join(d, fs[i].name) = path}

\* os.path.getsize(path); NoSize when it raises OSError
getsize(fs, d, path) ==
    IF Entries(fs, d, path) = {} THEN NoSize
    ELSE fs[CHOOSE i \in Entries(fs, d, path) : TRUE].size

\* os.remove(path) succeeding: the entry leaves the directory, the rest keeps its order
RECURSIVE remove(_, _, _)
remove(fs, d, path) ==
    IF fs = <<>> THEN <<>>
    ELSE IF join(d, Head(fs).name) = path THEN Tail(fs)
    ELSE <<Head(fs)>> \o remove(Tail(fs), d, path)

---------------------------------------------------------------------------
(* scan_directory *)

\* dict.get(key, default)
Get(latest, key, default) == IF key \in DOMAIN latest THEN latest[key] ELSE default

\* latest[key] = val
Put(latest, key, val) ==
    [k \in (DOMAIN latest) \cup {key} |-> IF k = key THEN val ELSE latest[k]]

\* fault: the suffix test without lower()
HasVarSuffix_CaseSensitive(name) == endswith(name, DotVar)

\* name.lower().endswith(".var")
HasVarSuffix(name) == endswith(lower(name), DotVar)

\* fault: the first version seen of a base is kept as its maximum
RaisesLatest_FirstSeen(ver, latest, base) == base \notin DOMAIN latest

\* line 65: the first pass raises the base's maximum
RaisesLatest(ver, latest, base) == ver > Get(latest, base, -1)

\* fault: the newest version counts as outdated too
IsOutdated_OrEqual(ver, latest, base) == ver <= Get(latest, base, ver)

\* line 78: the second pass classifies the file as outdated
IsOutdated(ver, latest, base) == ver < Get(latest, base, ver)

\* fault: the bare name is used as the path
PathFor_BareName(d, name) == name

\* line 79: path = os.path.join(dirpath, name)
PathFor(d, name) == join(d, name)

\* fault: the failure value of getsize is added to the total
AddSize_Sentinel(total, fs, d, path) == total + getsize(fs, d, path)

\* lines 81-84: total_size += getsize(path), an OSError swallowed
AddSize(total, fs, d, path) ==
    IF getsize(fs, d, path) = NoSize THEN total ELSE total + getsize(fs, d, path)

\* lines 56-66: the first loop over os.listdir
RECURSIVE FirstPass(_, _, _)
FirstPass(names, i, latest) ==
    IF i > Len(names) THEN latest
    ELSE IF ~HasVarSuffix(names[i]) THEN FirstPass(names, i + 1, latest)
    ELSE LET m == VERSION_RE_match(names[i])
         IN IF ~m.matched THEN FirstPass(names, i + 1, latest)
            ELSE IF RaisesLatest(int(m.version), latest, m.base)
                 THEN FirstPass(names, i + 1, Put(latest, m.base, int(m.version)))
                 ELSE FirstPass(names, i + 1, latest)

\* lines 68-85: the second loop over os.listdir; res is [outdated, total_size]
RECURSIVE SecondPass(_, _, _, _, _)
SecondPass(fs, d, i, latest, res) ==
    IF i > Len(fs) THEN res
    ELSE LET name == listdir(fs)[i] IN
         IF ~HasVarSuffix(name) THEN SecondPass(fs, d, i + 1, latest, res)
         ELSE LET m == VERSION_RE_match(name)
              IN IF ~m.matched THEN SecondPass(fs, d, i + 1, latest, res)
                 ELSE IF IsOutdated(int(m.version), latest, m.base)
                      THEN SecondPass(fs, d, i + 1, latest,
                               [outdated   |-> Append(res.outdated, PathFor(d, name)),
                                total_size |-> AddSize(res.total_size, fs, d, PathFor(d, name))])
                      ELSE SecondPass(fs, d, i + 1, latest, res)

\* scan_directory(dirpath) on filesystem content fs
scan_directory(fs, d) ==
    SecondPass(fs, d, 1, FirstPass(listdir(fs), 1, <<>>),
               [outdated |-> <<>>, total_size |-> 0])

---------------------------------------------------------------------------
(* The preference file: load_last_dir, save_last_dir *)

Cwd == TheDir                \* os.getcwd(): the program is started in the directory

CfgMissing == [exists |-> FALSE, valid |-> FALSE, last_dir |-> <<>>]

CfgOf(path) == [exists |-> TRUE, valid |-> TRUE, last_dir |-> path]

\* load_last_dir(): <<>> stands for None
load_last_dir(c) == IF c.exists /\ c.valid THEN c.last_dir ELSE <<>>

\* save_last_dir(path): a failure to open the file for writing is swallowed
save_last_dir(c, path, ok) == IF ok THEN CfgOf(path) ELSE c

\* the filesystem calls load_last_dir makes
LoadOps(c) == {"cfg.exists"} \cup (IF c.exists THEN {"cfg.read"} ELSE {})

---------------------------------------------------------------------------
(* Inputs *)

File(name, sz) == [name |-> name, size |-> sz]

\* the files a directory of the interactive runs is drawn from
MainPool ==
    { File(<<"a", ".", "2", ".", "v", "a", "r">>, 1),
      File(<<"a", ".", "1", ".", "v", "a", "r">>, 2),
      File(<<"a", ".", "0", "2", ".", "V", "A", "R">>, 4),
      File(<<"b", ".", "9", ".", "v", "a", "r">>, NoSize),
      File(<<"a", ".", "1", "0", ".", "v", "a", "r">>, 8),
      File(<<"a", ".", "x", ".", "v", "a", "r">>, 16) }

\* the files a directory of the scan-only runs is drawn from
ScanPool ==
    MainPool \cup
    { File(<<"a", ".", "1", ".", "v", "a", "r">>, NoSize),
      File(<<"a", ".", "3", ".", "v", "a", "R">>, 32),
      File(<<"a", ".", "v", "a", "r">>, 64),
      File(<<"r", "e", "a", "d", "m", "e", ".", "t", "x", "t">>, 128),
      File(<<"a", ".", "1", ".", "2", ".", "v", "a", "r">>, 256),
      File(<<"a", ".", "1", ".", "1", ".", "v", "a", "r">>, 512),
      File(<<"a", ".", "3", ".", "v", "a", "r", NL>>, 1024),
      File(<<"a", NL, ".", "4", ".", "v", "a", "r">>, 2048),
      File(<<".", "7", ".", "v", "a", "r">>, 4096),
      File(<<"b", ".", "1", "0", ".", "v", "a", "r">>, 8192) }

\* the directories of at most n entries, in every enumeration order, names distinct
Directories(pool, n) ==
    UNION { { s \in [1..k -> pool] :
                \A i, j \in 1..k : i # j => s[i].name # s[j].name } : k \in 0..n }

ModeInputs ==
    { <<"v", "i", "e", "w">>,
      <<" ", "U", "P", "D", "A", "T", "E", " ">>,
      <<"b", "l", "a", "h">>,
      <<>> }

RespInputs == { <<"Y", "e", "s">>, <<" ", "y">>, <<"n">>, <<>> }

PathInputs == { <<>>, TheDir, BadPath, <<" ">> \o TheDir }

ViewMode == <<"v", "i", "e", "w">>

UpdateMode == <<"u", "p", "d", "a", "t", "e">>

---------------------------------------------------------------------------
(* main *)

Msg(kind, n, path) == [kind |-> kind, n |-> n, path |-> path]

\* fault: an empty answer is taken as view
ValidMode_EmptyIsView(m) == m \in {ViewMode, UpdateMode, <<>>}

\* line 103: the mode is accepted
ValidMode(m) == m \in {ViewMode, UpdateMode}

\* line 112: the confirmation prompt is shown
AsksConfirmation(m, count) == m = UpdateMode /\ count > 0

\* fault: every answer but a "n..." confirms
Confirms_UnlessNo(resp) == ~startswith(resp, <<"n">>)

\* line 114: the answer confirms the deletion
Confirms(resp) == startswith(resp, <<"y">>)

\* fault: the loop stops at the first failure
LastIteration_StopOnError(i, outd, ok) == i = Len(outd) \/ ~ok

\* line 115: the iteration at position i is the last one, whatever its outcome
LastIteration(i, outd, ok) == i = Len(outd)

\* line 120: the number the final message prints
DeletedCount(outd, att) == Len(outd)

RunInit ==
    /\ pc = "pick"
    /\ dirpath = <<>>
    /\ rawMode = <<>>
    /\ mode = <<>>
    /\ outdated = <<>>
    /\ size = 0
    /\ rawResp = <<>>
    /\ idx = 0
    /\ out = <<>>
    /\ attempts = <<>>
    /\ fsops = {}

Init ==
    /\ dir \in Directories(MainPool, MaxFiles)
    /\ cfg = CfgMissing
    /\ RunInit
    /\ dirStart = dir
    /\ dir0 = dir
    /\ runs = 1

\* lines 97-100 with pick_directory (31-49), load_last_dir and save_last_dir
PickDirectory ==
    /\ pc = "pick"
    /\ \E gui \in BOOLEAN, typed \in PathInputs, saveOk \in BOOLEAN :
         LET last    == load_last_dir(cfg)
             initial == IF last # <<>> THEN last ELSE Cwd
             path    == IF gui THEN typed
                        ELSE IF strip(typed) # <<>> THEN strip(typed) ELSE initial
             chosen  == path # <<>> /\ isdir(path)
         IN /\ dirpath' = IF chosen THEN path ELSE <<>>
            /\ cfg' = IF chosen THEN save_last_dir(cfg, path, saveOk) ELSE cfg
            /\ fsops' = fsops \cup LoadOps(cfg)
                          \cup (IF last = <<>> THEN {"getcwd"} ELSE {})
                          \cup (IF path # <<>> THEN {"isdir"} ELSE {})
                          \cup (IF chosen THEN {"cfg.write"} ELSE {})
            /\ out' = IF chosen THEN out
                      ELSE Append(out, Msg("No directory selected. Exiting.", 0, <<>>))
            /\ pc' = IF chosen THEN "mode" ELSE "exit"
    /\ UNCHANGED <<dir, rawMode, mode, outdated, size, rawResp, idx, attempts,
                   dirStart, dir0, runs>>

\* lines 102-112: the mode prompt, the scan and its report
ChooseMode ==
    /\ pc = "mode"
    /\ \E typed \in ModeInputs :
         LET m == lower(strip(typed))
             r == scan_directory(dir, dirpath)
         IN /\ rawMode' = typed
            /\ mode' = m
            /\ IF ~ValidMode(m)
               THEN /\ out' = Append(out, Msg("Invalid mode. Exiting.", 0, <<>>))
                    /\ pc' = "exit"
                    /\ UNCHANGED <<outdated, size, fsops>>
               ELSE /\ outdated' = r.outdated
                    /\ size' = r.total_size
                    /\ fsops' = fsops \cup {"listdir"}
                                  \cup (IF r.outdated # <<>> THEN {"getsize"} ELSE {})
                    /\ out' = Append(out, Msg("Outdated files", Len(r.outdated), <<>>))
                    /\ pc' = IF AsksConfirmation(m, Len(r.outdated))
                             THEN "confirm" ELSE "ack"
    /\ UNCHANGED <<dir, cfg, dirpath, rawResp, idx, attempts, dirStart, dir0, runs>>

\* lines 113-114, 121-122: the confirmation prompt
Confirm ==
    /\ pc = "confirm"
    /\ \E typed \in RespInputs :
         /\ rawResp' = typed
         /\ IF Confirms(lower(strip(typed)))
            THEN /\ idx' = 1
                 /\ pc' = "delete"
                 /\ out' = out
            ELSE /\ idx' = idx
                 /\ pc' = "ack"
                 /\ out' = Append(out, Msg("Deletion cancelled.", 0, <<>>))
    /\ UNCHANGED <<dir, cfg, dirpath, rawMode, mode, outdated, size, attempts,
                   fsops, dirStart, dir0, runs>>

\* lines 115-120: one iteration of the deletion loop; the last one prints the count
RemoveNext ==
    /\ pc = "delete"
    /\ idx <= Len(outdated)
    /\ \E ok \in BOOLEAN :
         LET path == outdated[idx]
             att  == Append(attempts, [path |-> path, ok |-> ok])
             said == IF ok THEN out ELSE Append(out, Msg("Failed to delete", 0, path))
         IN /\ dir' = IF ok THEN remove(dir, dirpath, path) ELSE dir
            /\ attempts' = att
            /\ fsops' = fsops \cup {"remove"}
            /\ idx' = idx + 1
            /\ IF LastIteration(idx, outdated, ok)
               THEN /\ out' = Append(said, Msg("Deleted", DeletedCount(outdated, att), <<>>))
                    /\ pc' = "ack"
               ELSE /\ out' = said
                    /\ pc' = "delete"
    /\ UNCHANGED <<cfg, dirpath, rawMode, mode, outdated, size, rawResp,
                   dirStart, dir0, runs>>

\* line 124: the final prompt
Acknowledge ==
    /\ pc = "ack"
    /\ pc' = "exit"
    /\ UNCHANGED <<dir, cfg, dirpath, rawMode, mode, outdated, size, rawResp, idx,
                   out, attempts, fsops, dirStart, dir0, runs>>

\* the program is started again on the directory as the last run left it
Rerun ==
    /\ pc = "exit"
    /\ runs < MaxRuns
    /\ runs' = runs + 1
    /\ pc' = "pick"
    /\ dirpath' = <<>>
    /\ rawMode' = <<>>
    /\ mode' = <<>>
    /\ outdated' = <<>>
    /\ size' = 0
    /\ rawResp' = <<>>
    /\ idx' = 0
    /\ out' = <<>>
    /\ attempts' = <<>>
    /\ fsops' = {}
    /\ dirStart' = dir
    /\ UNCHANGED <<dir, cfg, dir0>>

Next ==
    \/ PickDirectory
    \/ ChooseMode
    \/ Confirm
    \/ RemoveNext
    \/ Acknowledge
    \/ Rerun

Spec == Init /\ [][Next]_vars

---------------------------------------------------------------------------
(* scan_directory alone, on a wider range of directories *)

ScanInit ==
    /\ dir \in Directories(ScanPool, MaxFiles)
    /\ cfg = CfgMissing
    /\ RunInit
    /\ dirStart = dir
    /\ dir0 = dir
    /\ runs = 1

\* lines 55-85: one call of scan_directory
ScanOnce ==
    /\ pc = "pick"
    /\ pc' = "scanned"
    /\ dirpath' = TheDir
    /\ outdated' = scan_directory(dir, TheDir).outdated
    /\ size' = scan_directory(dir, TheDir).total_size
    /\ fsops' = {"listdir"} \cup (IF outdated' # <<>> THEN {"getsize"} ELSE {})
    /\ UNCHANGED <<dir, cfg, rawMode, mode, rawResp, idx, out, attempts,
                   dirStart, dir0, runs>>

ScanNext == ScanOnce

ScanSpec == ScanInit /\ [][ScanNext]_vars

---------------------------------------------------------------------------
(* Vocabulary of the properties *)

Range(s) == {s[i] : i \in DOMAIN s}

\* the entries of fs that are in S, in order
RECURSIVE Restrict(_, _)
Restrict(fs, S) ==
    IF fs = <<>> THEN <<>>
    ELSE IF Head(fs) \in S THEN <<Head(fs)>> \o Restrict(Tail(fs), S)
    ELSE Restrict(Tail(fs), S)

Paths(fs, d) == [i \in 1..Len(fs) |-> join(d, fs[i].name)]

\* the sum of the readable sizes of a set of entries
RECURSIVE SumSizes(_)
SumSizes(S) ==
    IF S = {} THEN 0
    ELSE LET e == CHOOSE x \in S : TRUE
         IN (IF e.size = NoSize THEN 0 ELSE e.size) + SumSizes(S \ {e})

\* The stated grammar: <non-empty base>.<digits>.var, extension in any case.
\* k is the position of the dot that separates base and version.
FormDots(name) ==
    {k \in 2..(Len(name) - 5) :
        /\ name[k] = "."
        /\ \A i \in (k + 1)..(Len(name) - 4) : name[i] \in Digits
        /\ lower(SubSeq(name, Len(name) - 3, Len(name))) = DotVar}

HasForm(name) == FormDots(name) # {}

FormBase(name) == SubSeq(name, 1, (CHOOSE k \in FormDots(name) : TRUE) - 1)

\* the number a string of decimal digits denotes, read left to right
RECURSIVE Decimal(_, _)
Decimal(s, acc) ==
    IF s = <<>> THEN acc ELSE Decimal(Tail(s), 10 * acc + DigitVal(Head(s)))

FormVersion(name) ==
    Decimal(SubSeq(name, (CHOOSE k \in FormDots(name) : TRUE) + 1, Len(name) - 4), 0)

\* the same, the base held to one line
HasLineForm(name) == HasForm(name) /\ NL \notin Range(FormBase(name))

\* the names a scan matches (C9), their base and their version
Matching(name) == HasLineForm(name)

BaseOf(name) == FormBase(name)

VerOf(name) == FormVersion(name)

\* the matching files of fs that share e's base
SameBase(fs, e) ==
    {f \in Range(fs) : Matching(f.name) /\ BaseOf(f.name) = BaseOf(e.name)}

\* e's version is the maximum among the matching files of its base
IsLatest(fs, e) ==
    Matching(e.name) /\ \A f \in SameBase(fs, e) : VerOf(f.name) <= VerOf(e.name)

\* e is a matching file with a version strictly below that maximum
IsOlder(fs, e) ==
    Matching(e.name) /\ \E f \in SameBase(fs, e) : VerOf(e.name) < VerOf(f.name)

\* what a first pass over the single name records
Alone(name) == FirstPass(<<name>>, 1, <<>>)

---------------------------------------------------------------------------
(* Properties of scan_directory, checked under ScanSpec *)

\* C1: scan_directory returns as outdated exactly the matching files whose
\* version is strictly less than the maximum version among the matching files
\* of the same base, in enumeration order; a base with one version present
\* contributes nothing, and a directory with no matching file gives an empty
\* list and total 0.  ("Matching" is the scan's own test; C9 states its grammar.)
C1_OutdatedExactlyOlder ==
    pc = "scanned" =>
        /\ outdated = Paths(Restrict(dir, {e \in Range(dir) : IsOlder(dir, e)}), TheDir)
        /\ \A e \in Range(dir) :
               Matching(e.name) /\ SameBase(dir, e) = {e}
                   => join(TheDir, e.name) \notin Range(outdated)
        /\ (\A e \in Range(dir) : ~Matching(e.name)) => outdated = <<>> /\ size = 0

\* a scan that lists an older file after the newest one of its base, beside
\* a base with a single version
C1_Witness ==
    /\ pc = "scanned"
    /\ Len(outdated) = 1
    /\ Len(dir) = 3
    /\ IsLatest(dir, dir[1]) /\ IsOlder(dir, dir[2])
    /\ Matching(dir[3].name) /\ SameBase(dir, dir[3]) = {dir[3]}

\* C7: the total is the sum of the sizes of the outdated files only; an
\* outdated file whose size cannot be read adds 0 and is still in the list.
C7_TotalIsSumOfOutdated ==
    pc = "scanned" =>
        /\ size = SumSizes({e \in Range(dir) : join(TheDir, e.name) \in Range(outdated)})
        /\ \A e \in Range(dir) :
               IsOlder(dir, e) /\ e.size = NoSize
                   => join(TheDir, e.name) \in Range(outdated)

\* a scan with an unreadable outdated file, a readable outdated file and a
\* latest file
C7_Witness ==
    /\ pc = "scanned"
    /\ Len(outdated) = 2
    /\ size > 0
    /\ \E e \in Range(dir) :
           e.size = NoSize /\ join(TheDir, e.name) \in Range(outdated)
    /\ \E e \in Range(dir) : IsLatest(dir, e) /\ e.size > 0

\* C9 as stated: a name takes part in the scan iff it has the form
\* <non-empty base>.<digits>.var (extension in any case), with the digit
\* segment as version and all before it as base; every other name changes no
\* maximum, is never outdated and adds nothing to the total.
C9_AsStated ==
    pc = "scanned" =>
           /\ \A e \in Range(dir) :
                  /\ (Alone(e.name) # <<>>) <=> HasForm(e.name)
                  /\ HasForm(e.name) =>
                         Alone(e.name) = Put(<<>>, FormBase(e.name), FormVersion(e.name))
           /\ scan_directory(Restrict(dir, {e \in Range(dir) : HasForm(e.name)}), TheDir)
                  = [outdated |-> outdated, total_size |-> size]
           /\ \A e \in Range(dir) :
                  ~HasForm(e.name) => join(TheDir, e.name) \notin Range(outdated)

\* C9, amended: the same with the base held to one line (no newline in it).
C9_TakesPartIffLineForm ==
    pc = "scanned" =>
           /\ \A e \in Range(dir) :
                  /\ (Alone(e.name) # <<>>) <=> HasLineForm(e.name)
                  /\ HasLineForm(e.name) =>
                         Alone(e.name) = Put(<<>>, FormBase(e.name), FormVersion(e.name))
           /\ scan_directory(Restrict(dir, {e \in Range(dir) : HasLineForm(e.name)}), TheDir)
                  = [outdated |-> outdated, total_size |-> size]
           /\ \A e \in Range(dir) :
                  ~HasLineForm(e.name) => join(TheDir, e.name) \notin Range(outdated)

\* a scan of a directory holding an outdated file, a name of several dotted
\* segments and a name that is not of the form
C9_Witness ==
    /\ pc = "scanned"
    /\ outdated # <<>>
    /\ \E e \in Range(dir) : HasLineForm(e.name) /\ "." \in Range(FormBase(e.name))
    /\ \E e \in Range(dir) : ~HasLineForm(e.name) /\ HasVarSuffix(e.name)

---------------------------------------------------------------------------
(* Properties of main, checked under Spec *)

\* the run is past its last filesystem call
Finished == pc \in {"ack", "exit"}

\* the run has scanned the directory and reported the count
Scanned == \E i \in DOMAIN out : out[i].kind = "Outdated files"

\* the answer, surrounding whitespace aside, begins with y or Y
Affirmative(raw) == strip(raw) # <<>> /\ strip(raw)[1] \in {"y", "Y"}

\* the answer as typed begins with y or Y
BeginsWithY(raw) == raw # <<>> /\ raw[1] \in {"y", "Y"}

\* the run is an UPDATE with outdated files that the user confirmed
ConfirmedUpdate == mode = UpdateMode /\ outdated # <<>> /\ Affirmative(rawResp)

AllSucceeded == \A i \in DOMAIN attempts : attempts[i].ok

Failed == {i \in DOMAIN attempts : ~attempts[i].ok}

IsFailureMsg(m) == m.kind = "Failed to delete"

IsFailedAttempt(a) == ~a.ok

\* the scan of the directory as it stands
ScanNow == scan_directory(dir, dirpath)

\* C2: after a confirmed UPDATE in which every deletion succeeds, exactly the
\* files of the outdated list are gone, the highest version of every base is
\* still on disk, and a scan of the directory reports 0 outdated and total 0.
C2_UpdateRemovesExactlyOutdated ==
    Finished /\ ConfirmedUpdate /\ AllSucceeded =>
        /\ dir = Restrict(dirStart,
                 {e \in Range(dirStart) : join(dirpath, e.name) \notin Range(outdated)})
        /\ Len(dir) = Len(dirStart) - Len(outdated)
        /\ \A e \in Range(dirStart) : IsLatest(dirStart, e) => e \in Range(dir)
        /\ ScanNow = [outdated |-> <<>>, total_size |-> 0]

\* a confirmed UPDATE that removed two files and left one
C2_Witness ==
    /\ pc = "ack"
    /\ ConfirmedUpdate /\ AllSucceeded
    /\ Len(attempts) = 2
    /\ Len(dir) = 1

\* C3 as stated: a file is removed only in an UPDATE run with outdated files
\* whose confirmation answer begins with y/Y; in every other run nothing is
\* removed and a scan afterwards returns what the run's scan returned.
C3_AsStated ==
    /\ dir # dirStart =>
           mode = UpdateMode /\ outdated # <<>> /\ BeginsWithY(rawResp)
    /\ Finished /\ ~(mode = UpdateMode /\ outdated # <<>> /\ BeginsWithY(rawResp)) =>
           /\ dir = dirStart
           /\ Scanned => ScanNow = [outdated |-> outdated, total_size |-> size]

\* C3, amended: the same, the answer read with surrounding whitespace stripped.
C3_RemovesOnlyWhenConfirmed ==
    /\ dir # dirStart \/ attempts # <<>> => ConfirmedUpdate
    /\ Finished /\ ~ConfirmedUpdate =>
           /\ dir = dirStart
           /\ Scanned => ScanNow = [outdated |-> outdated, total_size |-> size]

\* an UPDATE run with outdated files whose deletion was declined
C3_Witness ==
    /\ pc = "ack"
    /\ mode = UpdateMode
    /\ Len(outdated) = 2
    /\ rawResp = <<"n">>
    /\ dir = dirStart

\* C4: after a confirmed UPDATE the final count printed is the number of
\* files successfully deleted: n - k when k of the n attempts fail.
C4_CountIsSuccessfulDeletions ==
    Finished /\ ConfirmedUpdate =>
        out[Len(out)] = Msg("Deleted", Len(outdated) - Cardinality(Failed), <<>>)

\* C5: a confirmed UPDATE attempts the deletion of every file of the outdated
\* list, in list order, whatever the earlier outcomes; each failure prints a
\* message for that path and later files are still attempted and removed.
C5_EveryFileAttempted ==
    /\ pc = "delete" => [i \in DOMAIN attempts |-> attempts[i].path]
                            = SubSeq(outdated, 1, idx - 1)
    /\ Finished /\ ConfirmedUpdate =>
           /\ [i \in DOMAIN attempts |-> attempts[i].path] = outdated
           /\ [i \in DOMAIN SelectSeq(out, IsFailureMsg) |->
                   SelectSeq(out, IsFailureMsg)[i].path]
                = [i \in DOMAIN SelectSeq(attempts, IsFailedAttempt) |->
                       SelectSeq(attempts, IsFailedAttempt)[i].path]
           /\ \A i \in DOMAIN attempts :
                  attempts[i].ok <=> attempts[i].path \notin Range(Paths(dir, dirpath))

\* a confirmed UPDATE whose first deletion failed and whose second succeeded
C5_Witness ==
    /\ pc = "ack"
    /\ ConfirmedUpdate
    /\ Len(attempts) = 2
    /\ ~attempts[1].ok
    /\ attempts[2].ok
    /\ Len(dir) = Len(dirStart) - 1

\* the run has answered the mode prompt
ModeAnswered == dirpath # <<>> /\ pc \notin {"pick", "mode"}

\* C6 as stated: a mode input other than VIEW or UPDATE (in any case) makes
\* the program exit without touching the filesystem, preference file included.
C6_AsStated ==
    ModeAnswered /\ lower(rawMode) \notin {ViewMode, UpdateMode} =>
        /\ pc = "exit"
        /\ fsops = {}
        /\ dir = dirStart

\* C6, amended: a mode input that, stripped and lower-cased, is neither view
\* nor update makes the program exit without a scan: the directory is not
\* listed, no file is sized or deleted, and the only filesystem calls of the
\* run are those of the directory selection that came before the prompt.
C6_InvalidModeNoScan ==
    ModeAnswered /\ lower(strip(rawMode)) \notin {ViewMode, UpdateMode} =>
        /\ pc = "exit"
        /\ fsops \subseteq {"cfg.exists", "cfg.read", "getcwd", "isdir", "cfg.write"}
        /\ dir = dirStart
        /\ outdated = <<>> /\ size = 0 /\ attempts = <<>>
        /\ out = <<Msg("Invalid mode. Exiting.", 0, <<>>)>>

\* a run that chose the directory, saved the preference and was given "blah"
C6_Witness ==
    /\ pc = "exit"
    /\ rawMode = <<"b", "l", "a", "h">>
    /\ "cfg.write" \in fsops
    /\ dir # <<>>

\* two distinct files of the directory that parse to the same base and version
Tied(e, f) ==
    /\ e # f
    /\ Matching(e.name) /\ Matching(f.name)
    /\ BaseOf(e.name) = BaseOf(f.name)
    /\ VerOf(e.name) = VerOf(f.name)

\* C8: two files that parse to the same (base, version), that version being
\* the base's maximum, are both latest: neither is listed as outdated nor
\* deleted by an UPDATE run, and every file of the base with a smaller version
\* is still outdated.
C8_TiedLatestBothKept ==
    \A e, f \in Range(dirStart) :
        Tied(e, f) /\ IsLatest(dirStart, e) =>
            /\ e \in Range(dir) /\ f \in Range(dir)
            /\ Scanned =>
                   /\ join(dirpath, e.name) \notin Range(outdated)
                   /\ join(dirpath, f.name) \notin Range(outdated)
                   /\ \A g \in SameBase(dirStart, e) :
                          VerOf(g.name) < VerOf(e.name)
                              => join(dirpath, g.name) \in Range(outdated)

\* a confirmed UPDATE over a.2.var, a.02.VAR and an older version, which it deleted
C8_Witness ==
    /\ pc = "ack"
    /\ ConfirmedUpdate /\ AllSucceeded
    /\ Len(dir) = 2
    /\ Tied(dir[1], dir[2])
    /\ Len(dirStart) = 3

\* C10: over any sequence of runs, every base with a matching file at the
\* start keeps its maximum-version file, and no file with a non-matching name
\* is removed: a file that is gone was a matching file below its base's maximum.
C10_LatestAndForeignFilesSurvive ==
    \A e \in Range(dir0) :
        e \notin Range(dir) => Matching(e.name) /\ ~IsLatest(dir0, e)

\* a second run that deleted a file after the first run had deleted another
C10_Witness ==
    /\ runs = 2
    /\ pc = "ack"
    /\ Len(dir0) = 3
    /\ Len(dirStart) = 2
    /\ Len(dir) = 1
    /\ IsLatest(dir0, dir[1])

====
